---- MODULE Spec2Model ----
(***************************************************************************)
(* Model of server.py, the Multi-Robot Control MCP adapter: every tool is  *)
(* a coroutine that builds one HTTP request, awaits the robot's answer and *)
(* maps it to the tool's result.  A coroutine is cut at its await: the     *)
(* action bearing the tool's name runs the code up to the outbound call,   *)
(* the matching ...Resume action runs the code after the await with the    *)
(* answer the network produced.                                            *)
(***************************************************************************)
EXTENDS Integers, Sequences, FiniteSets, TLC

VARIABLES
    pc,        \* "idle" | "awaiting" (outbound call in flight) | "done"
    op,        \* name of the running tool, "" when idle
    args,      \* the bound parameters of the running tool (after defaults)
    given,     \* the arguments exactly as the caller passed them
    inflight,  \* the outbound request awaiting its answer
    calls,     \* every outbound request issued by this invocation, in order
    answers,   \* the answers those requests received, in order
    result,    \* list_available_robots: the local list `result`
    ret        \* what the invocation gave back to its caller

vars == <<pc, op, args, given, inflight, calls, answers, result, ret>>

----------------------------------------------------------------------------
(* Inputs.  A caller either omits an argument (the Python default applies) *)
(* or passes a value; floats are written as their Python literals.         *)

Omitted == "<omitted>"
None    == "None"

Ports      == {8000, 8001}
Speeds     == {Omitted, "0.5"}
Durations  == {Omitted, "0.0", "2.0"}
Freqs      == {Omitted, "880.0"}
Volumes    == {Omitted, "1.0"}
Velocities == {Omitted, "-0.3"}
Formats    == {Omitted, "png", "jpeg", "gif"}
Qualities  == {Omitted, "50"}

(* What the network can produce for one outbound call: an HTTP response    *)
(* (status line and body) or an httpx transport exception.                 *)
Statuses == {200, 204, 301, 404, 500}

BodyNamed    == "{\"name\": \"Rover\", \"status\": \"ok\"}"
BodyNoName   == "{\"status\": \"ok\"}"
BodyArray    == "[\"name\"]"
BodyString   == "\"my name\""
BodyNumber   == "5"
BodyHtml     == "<html>"
BodyPng      == "\\x89PNG..."
BodyEmpty    == ""
Bodies == {BodyNamed, BodyNoName, BodyArray, BodyString, BodyNumber,
           BodyHtml, BodyPng, BodyEmpty}

TransportExcs == {[exc |-> "ConnectError", msg |-> "All connection attempts failed"],
                  [exc |-> "ReadTimeout",  msg |-> ""]}

Outcomes ==
    [kind : {"response"}, status : Statuses, body : Bodies,
     exc : {""}, msg : {""}]
    \cup
    {[kind |-> "error", status |-> 0, body |-> "", exc |-> t.exc, msg |-> t.msg]
        : t \in TransportExcs}

----------------------------------------------------------------------------
(* Values *)

(* A parsed JSON value: its Python type, the set of k for which `k in v`   *)
(* is True (keys of a dict, elements of a list, substrings of a str), the  *)
(* value under "name" of a dict, and the text it was parsed from.          *)
NoJson == [type |-> "none", members |-> {}, name |-> "", raw |-> ""]

(* response.json(): the parsed value of a body, type "invalid" when the    *)
(* body is not JSON (json.loads raises JSONDecodeError).                   *)
Json(body) ==
    CASE body = BodyNamed  -> [NoJson EXCEPT !.type = "object", !.raw = body,
                                  !.members = {"name", "status"}, !.name = "Rover"]
      [] body = BodyNoName -> [NoJson EXCEPT !.type = "object", !.raw = body,
                                  !.members = {"status"}]
      [] body = BodyArray  -> [NoJson EXCEPT !.type = "array", !.raw = body,
                                  !.members = {"name"}]
      [] body = BodyString -> [NoJson EXCEPT !.type = "string", !.raw = body,
                                  !.members = {"my name", "name", "my"}]
      [] body = BodyNumber -> [NoJson EXCEPT !.type = "number", !.raw = body]
      [] OTHER             -> [NoJson EXCEPT !.type = "invalid"]

NoRequest == [method |-> "", url |-> "", params |-> <<>>, json |-> <<>>,
              timeout |-> ""]

NoRet == [kind |-> "none", exc |-> "", json |-> NoJson, data |-> "",
          format |-> "", list |-> <<>>, name |-> "", port |-> 0,
          capabilities |-> <<>>, api_endpoints |-> <<>>]

NoArgs == [port |-> 0, speed |-> "", duration |-> "", frequency |-> "",
           volume |-> "", linear_velocity |-> "", angular_velocity |-> "",
           format |-> "", quality |-> ""]

(* A parameter default of a tool's signature. *)
Bind(arg, default) == IF arg = Omitted THEN default ELSE arg

(* The keys of a params / json dict, kept as a sequence of <<key, value>>. *)
Keys(d) == {d[i][1] : i \in DOMAIN d}
Get(d, k) == (CHOOSE i \in DOMAIN d : d[i][1] = k)

get_robot_api_url(port) == "http://localhost:" \o ToString(port)

(* httpx.AsyncClient() without arguments: 5 second timeout, redirects are  *)
(* not followed.                                                           *)
ClientGet(url, params) ==
    [method |-> "GET", url |-> url, params |-> params, json |-> <<>>,
     timeout |-> "5.0"]
ClientPost(url, body) ==
    [method |-> "POST", url |-> url, params |-> <<>>, json |-> body,
     timeout |-> "5.0"]

(* The code up to `await client.get(...)`: one outbound call is issued.    *)
Issue(name, bound, passed, request) ==
    /\ pc = "idle"
    /\ pc' = "awaiting"
    /\ op' = name
    /\ args' = bound
    /\ given' = passed
    /\ inflight' = request
    /\ calls' = <<request>>
    /\ answers' = <<>>
    /\ result' = <<>>
    /\ ret' = NoRet

(* As SpeedParams, with `if duration:` for `if duration is not None:`. *)
SpeedParams_Truthy(speed, duration) ==
    <<<<"speed", speed>>>> \o
    (IF duration # None /\ duration # "0.0"
     THEN <<<<"duration", duration>>>> ELSE <<>>)

(* params = {"speed": speed}; if duration is not None: params["duration"]  *)
SpeedParams(speed, duration) ==
    <<<<"speed", speed>>>> \o
    (IF duration # None THEN <<<<"duration", duration>>>> ELSE <<>>)

Move(name, path, defaultSpeed) ==
    \E port \in Ports, speed \in Speeds, duration \in Durations :
        LET a == [NoArgs EXCEPT !.port = port,
                                !.speed = Bind(speed, defaultSpeed),
                                !.duration = Bind(duration, None)]
            g == [NoArgs EXCEPT !.port = port, !.speed = speed,
                                !.duration = duration]
        IN  Issue(name, a, g,
                  ClientGet(get_robot_api_url(a.port) \o path,
                            SpeedParams(a.speed, a.duration)))

drive_forward  == Move("drive_forward",  "/forward",  "0.2")
turn_left      == Move("turn_left",      "/left",     "1.2")
turn_right     == Move("turn_right",     "/right",    "1.2")

(* As drive_backward, with the path of drive_forward left in place. *)
drive_backward_ForwardPath == Move("drive_backward", "/forward", "0.2")

drive_backward == Move("drive_backward", "/backward", "0.2")

stop ==
    \E port \in Ports :
        LET a == [NoArgs EXCEPT !.port = port]
        IN  Issue("stop", a, a, ClientGet(get_robot_api_url(a.port) \o "/stop", <<>>))

(* params = {"frequency": ..., "duration": ..., "volume": ...} *)
beep ==
    \E port \in Ports, frequency \in Freqs, duration \in Durations \ {"0.0"},
       volume \in Volumes :
        LET a == [NoArgs EXCEPT !.port = port,
                                !.frequency = Bind(frequency, "440.0"),
                                !.duration = Bind(duration, "1.0"),
                                !.volume = Bind(volume, "0.5")]
            g == [NoArgs EXCEPT !.port = port, !.frequency = frequency,
                                !.duration = duration, !.volume = volume]
        IN  Issue("beep", a, g,
                  ClientGet(get_robot_api_url(a.port) \o "/beep",
                            << <<"frequency", a.frequency>>,
                               <<"duration", a.duration>>,
                               <<"volume", a.volume>> >>))

(* json_data = {"linear_velocity": ..., "angular_velocity": ...};          *)
(* if duration is not None: json_data["duration"] = duration               *)
DriveBody(linear_velocity, angular_velocity, duration) ==
    << <<"linear_velocity", linear_velocity>>,
       <<"angular_velocity", angular_velocity>> >> \o
    (IF duration # None THEN <<<<"duration", duration>>>> ELSE <<>>)

drive ==
    \E port \in Ports, linear_velocity \in Velocities,
       angular_velocity \in Velocities, duration \in Durations :
        LET a == [NoArgs EXCEPT !.port = port,
                                !.linear_velocity = Bind(linear_velocity, "0.0"),
                                !.angular_velocity = Bind(angular_velocity, "0.0"),
                                !.duration = Bind(duration, None)]
            g == [NoArgs EXCEPT !.port = port,
                                !.linear_velocity = linear_velocity,
                                !.angular_velocity = angular_velocity,
                                !.duration = duration]
        IN  Issue("drive", a, g,
                  ClientPost(get_robot_api_url(a.port) \o "/drive",
                             DriveBody(a.linear_velocity, a.angular_velocity,
                                       a.duration)))

robot_status ==
    \E port \in Ports :
        LET a == [NoArgs EXCEPT !.port = port]
        IN  Issue("robot_status", a, a,
                  ClientGet(get_robot_api_url(a.port) \o "/", <<>>))

(* params = {"format": format, "quality": quality} *)
get_camera_image ==
    \E port \in Ports, format \in Formats, quality \in Qualities :
        LET a == [NoArgs EXCEPT !.port = port,
                                !.format = Bind(format, "png"),
                                !.quality = Bind(quality, "90")]
            g == [NoArgs EXCEPT !.port = port, !.format = format,
                                !.quality = quality]
        IN  Issue("get_camera_image", a, g,
                  ClientGet(get_robot_api_url(a.port) \o "/image",
                            << <<"format", a.format>>,
                               <<"quality", a.quality>> >>))

JsonTools == {"drive_forward", "drive_backward", "turn_left", "turn_right",
              "stop", "beep", "drive", "robot_status"}
RelayTools == JsonTools \cup {"get_camera_image"}

Raise(e) == [NoRet EXCEPT !.kind = "raise", !.exc = e]

(* httpx Response.is_success, the test of raise_for_status(). *)
is_success(status) == status >= 200 /\ status <= 299

(* As ReturnJson, without the call of raise_for_status(). *)
ReturnJson_NoRaiseForStatus(o) ==
    IF o.kind = "error" THEN Raise(o.exc)
    ELSE IF Json(o.body).type = "invalid" THEN Raise("JSONDecodeError")
    ELSE [NoRet EXCEPT !.kind = "json", !.json = Json(o.body)]

(* response.raise_for_status(); return response.json() *)
ReturnJson(o) ==
    IF o.kind = "error" THEN Raise(o.exc)
    ELSE IF ~is_success(o.status) THEN Raise("HTTPStatusError")
    ELSE IF Json(o.body).type = "invalid" THEN Raise("JSONDecodeError")
    ELSE [NoRet EXCEPT !.kind = "json", !.json = Json(o.body)]

(* response.raise_for_status(); return Image(data=response.content,        *)
(* format=format)                                                          *)
ReturnImage(o, format) ==
    IF o.kind = "error" THEN Raise(o.exc)
    ELSE IF ~is_success(o.status) THEN Raise("HTTPStatusError")
    ELSE [NoRet EXCEPT !.kind = "image", !.data = o.body, !.format = format]

(* As Finish, with one more attempt after a transport failure. *)
Finish_Retry(o, value) ==
    IF o.kind = "error" /\ Len(calls) < 2
    THEN /\ calls' = Append(calls, inflight)
         /\ answers' = Append(answers, o)
         /\ UNCHANGED <<pc, op, args, given, inflight, result, ret>>
    ELSE /\ pc' = "done"
         /\ inflight' = NoRequest
         /\ answers' = Append(answers, o)
         /\ ret' = value
         /\ UNCHANGED <<op, args, given, calls, result>>

(* As Finish, on a client without a timeout: a downstream that never       *)
(* answers leaves the coroutine suspended for good.                        *)
Finish_NoTimeout(o, value) ==
    IF o.kind = "error" /\ o.exc = "ReadTimeout"
    THEN /\ pc' = "suspended"
         /\ UNCHANGED <<op, args, given, inflight, calls, answers, result, ret>>
    ELSE /\ pc' = "done"
         /\ inflight' = NoRequest
         /\ answers' = Append(answers, o)
         /\ ret' = value
         /\ UNCHANGED <<op, args, given, calls, result>>

(* The code after the await of a single-action tool: the answer arrives,   *)
(* the coroutine finishes by returning or raising.                         *)
Finish(o, value) ==
    /\ pc' = "done"
    /\ inflight' = NoRequest
    /\ answers' = Append(answers, o)
    /\ ret' = value
    /\ UNCHANGED <<op, args, given, calls, result>>

RelayResume ==
    /\ pc = "awaiting"
    /\ op \in JsonTools
    /\ \E o \in Outcomes : Finish(o, ReturnJson(o))

ImageResume ==
    /\ pc = "awaiting"
    /\ op = "get_camera_image"
    /\ \E o \in Outcomes : Finish(o, ReturnImage(o, args.format))

----------------------------------------------------------------------------
(* list_available_robots *)

robots == << [port |-> 8000, name |-> "Robot 1"],
             [port |-> 8001, name |-> "Robot 2"] >>

NoEntry == [port |-> 0, name |-> "", status |-> "", hasInfo |-> FALSE,
            info |-> NoJson]

(* client.get(f"{robot_api_url}/", timeout=1.0) *)
StatusQuery(robot) ==
    [method |-> "GET", url |-> get_robot_api_url(robot.port) \o "/",
     params |-> <<>>, json |-> <<>>, timeout |-> "1.0"]

(* As RobotInfo, with the except branch leaving out the name. *)
RobotInfo_NamelessOffline(robot, o) ==
    LET id == [NoEntry EXCEPT !.port = robot.port, !.name = robot.name]
    IN  IF o.kind = "error"
        THEN [id EXCEPT !.status = "offline: " \o o.msg, !.name = ""]
        ELSE IF o.status = 200
        THEN IF Json(o.body).type = "invalid"
             THEN [id EXCEPT !.status = "offline: Expecting value", !.name = ""]
             ELSE [id EXCEPT !.status = "online", !.hasInfo = TRUE,
                             !.info = Json(o.body)]
        ELSE [id EXCEPT !.status = "error: " \o ToString(o.status)]

(* One pass of the loop body after the await: the try/except that builds   *)
(* robot_info.  str(e) of the caught exception is its message.             *)
RobotInfo(robot, o) ==
    LET id == [NoEntry EXCEPT !.port = robot.port, !.name = robot.name]
    IN  IF o.kind = "error"
        THEN [id EXCEPT !.status = "offline: " \o o.msg]
        ELSE IF o.status = 200
        THEN IF Json(o.body).type = "invalid"
             THEN [id EXCEPT !.status = "offline: Expecting value"]
             ELSE [id EXCEPT !.status = "online", !.hasInfo = TRUE,
                             !.info = Json(o.body)]
        ELSE [id EXCEPT !.status = "error: " \o ToString(o.status)]

list_available_robots ==
    /\ pc = "idle"
    /\ pc' = "awaiting"
    /\ op' = "list_available_robots"
    /\ args' = NoArgs
    /\ given' = NoArgs
    /\ inflight' = StatusQuery(robots[1])
    /\ calls' = <<StatusQuery(robots[1])>>
    /\ answers' = <<>>
    /\ result' = <<>>
    /\ ret' = NoRet

(* As ListResume, with `except httpx.HTTPError` for `except Exception`: a  *)
(* body that is not JSON escapes the loop.                                 *)
ListResume_NarrowExcept ==
    /\ pc = "awaiting"
    /\ op = "list_available_robots"
    /\ \E o \in Outcomes :
        LET i == Len(result) + 1
            appended == Append(result, RobotInfo(robots[i], o))
        IN  /\ answers' = Append(answers, o)
            /\ IF o.kind = "response" /\ o.status = 200
                    /\ Json(o.body).type = "invalid"
               THEN /\ inflight' = NoRequest
                    /\ pc' = "done"
                    /\ ret' = Raise("JSONDecodeError")
                    /\ UNCHANGED <<calls, result>>
               ELSE /\ result' = appended
                    /\ IF i < Len(robots)
                       THEN /\ inflight' = StatusQuery(robots[i + 1])
                            /\ calls' = Append(calls, StatusQuery(robots[i + 1]))
                            /\ UNCHANGED <<pc, ret>>
                       ELSE /\ inflight' = NoRequest
                            /\ pc' = "done"
                            /\ ret' = [NoRet EXCEPT !.kind = "list",
                                                    !.list = appended]
                            /\ UNCHANGED calls
    /\ UNCHANGED <<op, args, given>>

(* The answer for robots[Len(result) + 1] arrives: result.append(robot_info)
   and either the next iteration issues its query or the list is returned. *)
ListResume ==
    /\ pc = "awaiting"
    /\ op = "list_available_robots"
    /\ \E o \in Outcomes :
        LET i == Len(result) + 1
            appended == Append(result, RobotInfo(robots[i], o))
        IN  /\ answers' = Append(answers, o)
            /\ result' = appended
            /\ IF i < Len(robots)
               THEN /\ inflight' = StatusQuery(robots[i + 1])
                    /\ calls' = Append(calls, StatusQuery(robots[i + 1]))
                    /\ UNCHANGED <<pc, ret>>
               ELSE /\ inflight' = NoRequest
                    /\ pc' = "done"
                    /\ ret' = [NoRet EXCEPT !.kind = "list", !.list = appended]
                    /\ UNCHANGED calls
    /\ UNCHANGED <<op, args, given>>

----------------------------------------------------------------------------
(* get_robot_info *)

capabilities ==
    << "Movement: forward, backward, left, right",
       "Sound: beep at different frequencies",
       "Control: precise velocity control",
       "Vision: camera image capture" >>

api_endpoints ==
    << "/forward - Move forward",
       "/backward - Move backward",
       "/left - Turn left",
       "/right - Turn right",
       "/stop - Stop movement",
       "/beep - Play sound",
       "/drive - Precise movement control",
       "/image - Get camera image",
       "/image/base64 - Get base64 encoded camera image" >>

(* robot_name = f"Robot (Port {port})" *)
DefaultName(port) == "Robot (Port " \o ToString(port) \o ")"

(* As ResolveName, without the test of response.status_code. *)
ResolveName_AnyStatus(port, o) ==
    IF o.kind = "error" THEN DefaultName(port)
    ELSE LET data == Json(o.body)
         IN  IF data.type = "invalid" THEN DefaultName(port)
             ELSE IF data.type = "number" THEN DefaultName(port)
             ELSE IF "name" \notin data.members THEN DefaultName(port)
             ELSE IF data.type # "object" THEN DefaultName(port)
             ELSE data.name

(* The try block after the await.  `"name" in data` raises TypeError on a  *)
(* number, data["name"] raises TypeError on a list or a str; the bare      *)
(* except leaves robot_name at its default.                                *)
ResolveName(port, o) ==
    IF o.kind = "error" THEN DefaultName(port)
    ELSE IF o.status # 200 THEN DefaultName(port)
    ELSE LET data == Json(o.body)
         IN  IF data.type = "invalid" THEN DefaultName(port)
             ELSE IF data.type = "number" THEN DefaultName(port)
             ELSE IF "name" \notin data.members THEN DefaultName(port)
             ELSE IF data.type # "object" THEN DefaultName(port)
             ELSE data.name

get_robot_info ==
    \E port \in Ports :
        LET a == [NoArgs EXCEPT !.port = port]
        IN  Issue("get_robot_info", a, a,
                  ClientGet(get_robot_api_url(a.port) \o "/", <<>>))

InfoResume ==
    /\ pc = "awaiting"
    /\ op = "get_robot_info"
    /\ \E o \in Outcomes :
        Finish(o, [NoRet EXCEPT !.kind = "info",
                                !.name = ResolveName(args.port, o),
                                !.port = args.port,
                                !.capabilities = capabilities,
                                !.api_endpoints = api_endpoints])

(* The caller has its result; the server takes the next invocation. *)
Complete ==
    /\ pc = "done"
    /\ pc' = "idle"
    /\ op' = ""
    /\ args' = NoArgs
    /\ given' = NoArgs
    /\ calls' = <<>>
    /\ answers' = <<>>
    /\ result' = <<>>
    /\ ret' = NoRet
    /\ UNCHANGED inflight

Init ==
    /\ pc = "idle"
    /\ op = ""
    /\ args = NoArgs
    /\ given = NoArgs
    /\ inflight = NoRequest
    /\ calls = <<>>
    /\ answers = <<>>
    /\ result = <<>>
    /\ ret = NoRet

Next ==
    \/ drive_forward
    \/ drive_backward
    \/ turn_left
    \/ turn_right
    \/ stop
    \/ beep
    \/ drive
    \/ robot_status
    \/ get_camera_image
    \/ RelayResume
    \/ ImageResume
    \/ list_available_robots
    \/ ListResume
    \/ get_robot_info
    \/ InfoResume
    \/ Complete

Spec == Init /\ [][Next]_vars

(* Every outbound call eventually gets its response or hits its timeout,   *)
(* and the event loop then resumes the awaiting coroutine.                 *)
LiveSpec ==
    Spec /\ WF_vars(RelayResume) /\ WF_vars(ImageResume)
         /\ WF_vars(ListResume) /\ WF_vars(InfoResume)

----------------------------------------------------------------------------
(* Vocabulary of the properties *)

MoveTools == {"drive_forward", "drive_backward", "turn_left", "turn_right"}

Started == pc \in {"awaiting", "done"}

(* HTTP status in the success range. *)
SuccessStatus(status) == status \in 200..299

(* The error taxonomy: which kind of failure a raised exception is. *)
ErrorKind(exc) ==
    CASE exc = "HTTPStatusError" -> "DownstreamApplicationError"
      [] exc \in {"ConnectError", "ReadTimeout"} -> "TransportError"
      [] exc = "JSONDecodeError" -> "MalformedResponseError"
      [] OTHER -> "none"

(* The bodies that are JSON texts. *)
Parsable(body) ==
    body \in {BodyNamed, BodyNoName, BodyArray, BodyString, BodyNumber}

ListDone == op = "list_available_robots" /\ pc = "done"

(* C1: the report of list_available_robots has one entry per configured
   target, and entry i carries the port and name of configured target i,
   whatever each target answered. *)
C1_ReportShape ==
    ListDone =>
        /\ ret.kind = "list"
        /\ Len(ret.list) = Len(robots)
        /\ \A i \in 1..Len(robots) :
            /\ ret.list[i].port = robots[i].port
            /\ ret.list[i].name = robots[i].name

(* A report where the first target failed at transport level and the second
   answered 200 with a body that is not JSON. *)
C1_Witness ==
    /\ ListDone
    /\ answers[1].kind = "error"
    /\ answers[2].kind = "response" /\ answers[2].status = 200
    /\ ~Parsable(answers[2].body)
    /\ Len(ret.list) = 2

(* C2: each entry's classification matches that target's own answer: online
   with the parsed payload whenever the status is a success status,
   application error with the status code whenever it is not, unreachable
   with a reason whenever the call failed at transport level. *)
C2_Classification ==
    ListDone =>
        \A i \in 1..Len(robots) :
            LET o == answers[i]
                e == ret.list[i]
            IN  /\ (o.kind = "response" /\ SuccessStatus(o.status)) =>
                        /\ e.status = "online"
                        /\ e.hasInfo
                        /\ e.info.raw = o.body
                /\ (o.kind = "response" /\ ~SuccessStatus(o.status)) =>
                        /\ e.status = "error: " \o ToString(o.status)
                        /\ ~e.hasInfo
                /\ o.kind = "error" =>
                        /\ e.status = "offline: " \o o.msg
                        /\ ~e.hasInfo

(* C3: list_available_robots never raises: whatever a target answers becomes
   that target's entry, every remaining target is still queried, and the
   full report is returned. *)
C3_NeverFails ==
    op = "list_available_robots" =>
        /\ ret.kind # "raise"
        /\ Len(result) = Len(answers)
        /\ pc = "awaiting" =>
            /\ Len(result) < Len(robots)
            /\ inflight = StatusQuery(robots[Len(result) + 1])
        /\ pc = "done" =>
            /\ ret.kind = "list"
            /\ ret.list = result
            /\ Len(answers) = Len(robots)
            /\ calls = [i \in 1..Len(robots) |-> StatusQuery(robots[i])]

(* The first target answered 200 with an unparsable body, and the second was
   queried all the same and answered with a non-success status. *)
C3_Witness ==
    /\ ListDone
    /\ answers[1].kind = "response" /\ answers[1].status = 200
    /\ ~Parsable(answers[1].body)
    /\ answers[2].kind = "response" /\ answers[2].status = 500
    /\ ret.kind = "list"

RelayDone == op \in RelayTools /\ pc = "done"

(* C4: a single-action relay call never turns a non-success status into a
   successful result: it raises (DownstreamApplicationError); a transport
   failure and a malformed response raise too, each as its own kind. *)
C4_FailuresPropagate ==
    RelayDone =>
        LET o == answers[1]
        IN  /\ (o.kind = "response" /\ ~SuccessStatus(o.status)) =>
                    /\ ret.kind = "raise"
                    /\ ErrorKind(ret.exc) = "DownstreamApplicationError"
            /\ o.kind = "error" =>
                    /\ ret.kind = "raise"
                    /\ ret.exc = o.exc
                    /\ ErrorKind(ret.exc) = "TransportError"
            /\ (op \in JsonTools /\ o.kind = "response"
                    /\ SuccessStatus(o.status) /\ ~Parsable(o.body)) =>
                    /\ ret.kind = "raise"
                    /\ ErrorKind(ret.exc) = "MalformedResponseError"
            /\ ret.kind \in {"json", "image", "raise"}
            /\ ret.kind \in {"json", "image"} =>
                    o.kind = "response" /\ SuccessStatus(o.status)

(* drive answered 500 with a well-formed JSON body, and the call failed. *)
C4_Witness ==
    /\ RelayDone
    /\ op = "drive"
    /\ answers[1].kind = "response" /\ answers[1].status = 500
    /\ answers[1].body = BodyNoName
    /\ ret.kind = "raise"

(* C5: an invocation of a single-action relay tool issues exactly one
   outbound call, whatever the outcome; nothing is retried. *)
C5_ExactlyOneCall ==
    (op \in RelayTools /\ Started) =>
        /\ Len(calls) = 1
        /\ pc = "awaiting" => inflight = calls[1] /\ answers = <<>>
        /\ pc = "done" => inflight = NoRequest /\ Len(answers) = 1

(* A relay call that ended on a transport failure. *)
C5_Witness ==
    /\ RelayDone
    /\ op = "turn_left"
    /\ answers[1].kind = "error"
    /\ Len(calls) = 1

(* C6: an optional parameter the caller omitted is absent from the
   downstream call, not sent as null: the query of the four move tools and
   the body of drive contain the key duration exactly when the caller
   supplied a duration, and then with the caller's value. *)
C6_OptionalOmitted ==
    (op \in MoveTools \cup {"drive"} /\ Started) =>
        LET d == IF op = "drive" THEN calls[1].json ELSE calls[1].params
        IN  /\ "duration" \in Keys(d) <=> given.duration # Omitted
            /\ \A i \in DOMAIN d : d[i][2] # None
            /\ given.duration # Omitted =>
                    d[Get(d, "duration")][2] = given.duration

(* drive called without a duration: the POST body has no duration key. *)
C6_Witness ==
    /\ pc = "awaiting"
    /\ op = "drive"
    /\ given.duration = Omitted
    /\ Keys(inflight.json) = {"linear_velocity", "angular_velocity"}

(* The downstream call of the action catalog for a tool: method and path. *)
CatalogMethod(tool) == IF tool = "drive" THEN "POST" ELSE "GET"
CatalogPath(tool) ==
    CASE tool = "drive_forward"    -> "/forward"
      [] tool = "drive_backward"   -> "/backward"
      [] tool = "turn_left"        -> "/left"
      [] tool = "turn_right"       -> "/right"
      [] tool = "stop"             -> "/stop"
      [] tool = "beep"             -> "/beep"
      [] tool = "drive"            -> "/drive"
      [] tool = "robot_status"     -> "/"
      [] tool = "get_camera_image" -> "/image"

(* The documented default of a parameter of a tool. *)
CatalogDefault(tool, key) ==
    CASE tool \in {"drive_forward", "drive_backward"} /\ key = "speed" -> "0.2"
      [] tool \in {"turn_left", "turn_right"} /\ key = "speed" -> "1.2"
      [] tool = "beep" /\ key = "frequency" -> "440.0"
      [] tool = "beep" /\ key = "duration"  -> "1.0"
      [] tool = "beep" /\ key = "volume"    -> "0.5"
      [] tool = "drive" /\ key \in {"linear_velocity", "angular_velocity"} -> "0.0"
      [] tool = "get_camera_image" /\ key = "format"  -> "png"
      [] tool = "get_camera_image" /\ key = "quality" -> "90"

(* The parameters of a tool that always travel downstream. *)
CatalogKeys(tool) ==
    CASE tool \in MoveTools -> {"speed"}
      [] tool = "beep" -> {"frequency", "duration", "volume"}
      [] tool = "drive" -> {"linear_velocity", "angular_velocity"}
      [] tool = "get_camera_image" -> {"format", "quality"}
      [] OTHER -> {}

Passed(key) ==
    CASE key = "speed" -> given.speed
      [] key = "duration" -> given.duration
      [] key = "frequency" -> given.frequency
      [] key = "volume" -> given.volume
      [] key = "linear_velocity" -> given.linear_velocity
      [] key = "angular_velocity" -> given.angular_velocity
      [] key = "format" -> given.format
      [] key = "quality" -> given.quality

(* C7: each relay tool issues the downstream call of the action catalog on
   the base locator of the requested port, carrying the caller's values and
   the documented defaults for the omitted ones; on downstream success the
   JSON tools return the downstream payload unchanged. *)
C7_ActionMapping ==
    (op \in RelayTools /\ Started) =>
        LET c == calls[1]
            d == IF op = "drive" THEN c.json ELSE c.params
            other == IF op = "drive" THEN c.params ELSE c.json
        IN  /\ c.method = CatalogMethod(op)
            /\ c.url = "http://localhost:" \o ToString(given.port) \o CatalogPath(op)
            /\ other = <<>>
            /\ CatalogKeys(op) \subseteq Keys(d)
            /\ Keys(d) \subseteq CatalogKeys(op) \cup {"duration"}
            /\ Cardinality(Keys(d)) = Len(d)
            /\ \A i \in DOMAIN d :
                d[i][2] = IF Passed(d[i][1]) = Omitted
                          THEN CatalogDefault(op, d[i][1])
                          ELSE Passed(d[i][1])
            /\ (pc = "done" /\ op \in JsonTools /\ answers[1].kind = "response"
                    /\ SuccessStatus(answers[1].status)
                    /\ Parsable(answers[1].body)) =>
                    /\ ret.kind = "json"
                    /\ ret.json.raw = answers[1].body

(* drive_backward with the default speed and a duration of 2.0 answered 200
   with a JSON object, which is what the caller got. *)
C7_Witness ==
    /\ RelayDone
    /\ op = "drive_backward"
    /\ given.speed = Omitted /\ given.duration = "2.0"
    /\ calls[1].params = << <<"speed", "0.2">>, <<"duration", "2.0">> >>
    /\ answers[1].kind = "response" /\ answers[1].status = 200
    /\ answers[1].body = BodyNamed
    /\ ret.kind = "json"

EncodingSet == {"jpeg", "png"}

(* C8: on downstream success get_camera_image returns the raw response
   bytes tagged with the requested format ("png" when omitted), and the tag
   is a member of the enumerated encoding set. *)
C8_ImageTag ==
    (op = "get_camera_image" /\ pc = "done" /\ answers[1].kind = "response"
        /\ SuccessStatus(answers[1].status)) =>
        /\ ret.kind = "image"
        /\ ret.data = answers[1].body
        /\ ret.format = IF given.format = Omitted THEN "png" ELSE given.format
        /\ ret.format \in EncodingSet

InfoFailure(o) ==
    \/ o.kind = "error"
    \/ ~SuccessStatus(o.status)
    \/ ~Parsable(o.body)
    \/ o.body # BodyNamed

(* C9: get_robot_info never raises and issues one status query; the name is
   the self-reported one only when the answer had a success status and a
   payload with a name field, and the port-derived fallback on any failure;
   capabilities and api_endpoints are the same fixed listings throughout. *)
C9_InfoLookup ==
    (op = "get_robot_info" /\ Started) =>
        /\ ret.kind # "raise"
        /\ Len(calls) = 1
        /\ calls[1].method = "GET"
        /\ calls[1].url = "http://localhost:" \o ToString(given.port) \o "/"
        /\ pc = "done" =>
            LET o == answers[1]
                fallback == "Robot (Port " \o ToString(given.port) \o ")"
            IN  /\ ret.kind = "info"
                /\ ret.port = given.port
                /\ ret.name \in {fallback, "Rover"}
                /\ ret.name = "Rover" => ~InfoFailure(o)
                /\ InfoFailure(o) => ret.name = fallback
                /\ Len(ret.capabilities) = 4
                /\ ret.capabilities = capabilities
                /\ Len(ret.api_endpoints) = 9
                /\ ret.api_endpoints = api_endpoints

(* The lookup of an unreachable robot gave the fallback name. *)
C9_Witness ==
    /\ op = "get_robot_info" /\ pc = "done"
    /\ given.port = 8001
    /\ answers[1].kind = "error" /\ answers[1].exc = "ConnectError"
    /\ ret.kind = "info" /\ ret.name = "Robot (Port 8001)"

TimedOut(o) == o.kind = "error" /\ o.exc = "ReadTimeout"

(* What an invocation that has completed must look like where timeouts are
   concerned. *)
Completed ==
    /\ pc = "done"
    /\ ret.kind # "none"
    /\ (op \in RelayTools /\ TimedOut(answers[1])) =>
            ret.kind = "raise" /\ ErrorKind(ret.exc) = "TransportError"
    /\ op = "list_available_robots" =>
            ret.kind = "list" /\ Len(ret.list) = Len(robots)

(* C10: when every outbound call eventually gets its response or hits its
   timeout, every invocation eventually completes: a relay call that times
   out ends as a failed call (TransportError), and list_available_robots,
   whose queries carry a 1 second timeout and run one after another,
   returns its report. *)
C10_Terminates ==
    /\ (pc = "awaiting") ~> Completed
    /\ [](op = "list_available_robots" /\ pc = "awaiting"
            => inflight.timeout = "1.0")

(* list_available_robots returned although both targets timed out. *)
C10_Witness ==
    /\ ListDone
    /\ TimedOut(answers[1]) /\ TimedOut(answers[2])
    /\ ret.kind = "list"
    /\ ret.list[1].status = "offline: " /\ ret.list[2].status = "offline: "
====
